---- MODULE Spec2Model ----
(***************************************************************************)
(* State-machine model of notebooks/traffic_simulation_analysis.py:        *)
(* SUMOTrafficSimulator (per-tick accumulation, aggregation, report,       *)
(* exports, visualization) and main().  The TraCI driver is external: its  *)
(* answers (remaining count, edge list, readings, failures) are inputs.    *)
(***************************************************************************)
EXTENDS Integers, Sequences, FiniteSets, TLC

VARIABLES
    pc,               \* position of main(): "init","loop","print","csv","json","viz","done","aborted"
    edge_counts,      \* self.edge_counts    (insertion-ordered dict: edge id -> list)
    edge_speeds,      \* self.edge_speeds
    edge_occupancy,   \* self.edge_occupancy
    simulation_steps, \* self.simulation_steps
    metrics,          \* the mapping returned by the last _calculate_metrics call
    prevMetrics,      \* the mapping returned by the call before it
    calls,            \* number of _calculate_metrics calls made
    tickLog,          \* history: the edge list of every tick whose getIDList() returned
    abortedBy,        \* "none", or what raised out of main(): "start","driver","calc","print","viz"
    reportStatus,     \* print_results: "none" | "printed" | "raised" (table printed, summary raised)
    significant,      \* print_results: keys of significant_edges, in dict order
    reportRows,       \* print_results: the entries of the printed table rows, in order
    csvStatus,        \* export_to_csv:  "none" | "written" | "failed"
    csvFile,          \* rows written by export_to_csv (edge ids in order)
    jsonStatus,       \* export_to_json: "none" | "written" | "failed"
    jsonFile,         \* export_data written by export_to_json
    vizStatus         \* visualize_results: "none" | "skipped" | "saved" | "raised"

vars == <<pc, edge_counts, edge_speeds, edge_occupancy, simulation_steps, metrics,
          prevMetrics, calls, tickLog, abortedBy, reportStatus, significant, reportRows,
          csvStatus, csvFile, jsonStatus, jsonFile, vizStatus>>

-----------------------------------------------------------------------------
\* Bounds of the model.

\* Ticks the driver is allowed to run before it must report zero remaining.
MaxTicks == 3
\* Longest series drawn for the aggregator's inputs.
MaxSeriesLen == 2
\* Most entries drawn for an aggregate mapping given to the reporter.
MaxEntries == 3
\* Consecutive aggregator calls made on one accumulator.
MaxCalls == 2

-----------------------------------------------------------------------------
\* Edge ids are strings; modelled as tuples of characters so that
\* str.startswith can be computed.

InternalEdge == <<":", "j">>
EdgeA == <<"a">>
EdgeB == <<"b">>
EdgeColonInside == <<"c", ":">>

\* The edges of the simulated network in a run.
RunEdges == {InternalEdge, EdgeA}
\* The edge ids of the aggregate mappings given to the reporter.
ReportEdges == {InternalEdge, EdgeA, EdgeB, EdgeColonInside}

\* One driver reading of an edge: vehicle number, mean speed, occupancy.
Readings ==
    { [count |-> 0, speed |-> 2, occ |-> 0],
      [count |-> 3, speed |-> 1, occ |-> 1] }

-----------------------------------------------------------------------------
\* Python dict (insertion-ordered) as a sequence of [k, v] entries.

Range(s) == { s[i] : i \in DOMAIN s }

Keys(d) == { d[i].k : i \in DOMAIN d }

KeyList(d) == [ i \in DOMAIN d |-> d[i].k ]

Has(d, key) == \E i \in DOMAIN d : d[i].k = key

Get(d, key) == d[CHOOSE i \in DOMAIN d : d[i].k = key].v

\* d[key] = val
Put(d, key, val) ==
    IF Has(d, key)
    THEN [ i \in DOMAIN d |-> IF d[i].k = key THEN [k |-> key, v |-> val] ELSE d[i] ]
    ELSE Append(d, [k |-> key, v |-> val])

IsPrefix(s, t) == Len(s) <= Len(t) /\ SubSeq(t, 1, Len(s)) = s

\* Duplicate-free sequences over S of length at most n.
Lists(S, n) ==
    { s \in UNION { [1..m -> S] : m \in 0..n } :
        \A i, j \in DOMAIN s : i # j => s[i] # s[j] }

-----------------------------------------------------------------------------
\* Metric Accumulator: SUMOTrafficSimulator._collect_step_data.

\* The accumulator as one value: the three dicts of the simulator object.
Acc(c, s, o) == [counts |-> c, speeds |-> s, occ |-> o]

EmptyAcc == Acc(<<>>, <<>>, <<>>)

\* Faulty variant: assignment instead of append, the series is restarted at every tick.
append_reading_restart(d, edge_id, x) == Put(d, edge_id, <<x>>)

\* "if edge_id not in d: d[edge_id] = []" then "d[edge_id].append(x)".
append_reading(d, edge_id, x) ==
    LET d0 == IF Has(d, edge_id) THEN d ELSE Put(d, edge_id, <<>>)
    IN  Put(d0, edge_id, Append(Get(d0, edge_id), x))

\* Faulty variant: the entry is created before the driver is read, so a read that
\* raises leaves an entry with no observation behind.
collect_edge_create_first(acc, edge_id, r, failRead) ==
    LET ensure(d) == IF Has(d, edge_id) THEN d ELSE Put(d, edge_id, <<>>)
        c0 == ensure(acc.counts)
        s0 == ensure(acc.speeds)
        o0 == ensure(acc.occ)
        c1 == append_reading(c0, edge_id, r.count)
        s1 == append_reading(s0, edge_id, r.speed)
        o1 == append_reading(o0, edge_id, r.occ)
    IN  CASE failRead = 1 -> Acc(c0, s0, o0)
          [] failRead = 2 -> Acc(c1, s0, o0)
          [] failRead = 3 -> Acc(c1, s1, o0)
          [] OTHER        -> Acc(c1, s1, o1)

\* The loop body of _collect_step_data for one edge.  failRead names the
\* driver read that raises: 1 getLastStepVehicleNumber, 2 getLastStepMeanSpeed,
\* 3 getLastStepOccupancy, 0 none.  A read that raises leaves behind what the
\* statements before it have done.
collect_edge(acc, edge_id, r, failRead) ==
    LET c1 == append_reading(acc.counts, edge_id, r.count)
        s1 == append_reading(acc.speeds, edge_id, r.speed)
        o1 == append_reading(acc.occ, edge_id, r.occ)
    IN  CASE failRead = 1 -> acc
          [] failRead = 2 -> Acc(c1, acc.speeds, acc.occ)
          [] failRead = 3 -> Acc(c1, s1, acc.occ)
          [] OTHER        -> Acc(c1, s1, o1)

RECURSIVE collect_from(_, _, _, _, _, _)
\* The for loop over getIDList() from position i on.  failIdx = 0: no read
\* raises; otherwise read failRead of the failIdx-th edge raises and the loop
\* is left there.
collect_from(acc, ids, rd, i, failIdx, failRead) ==
    IF i > Len(ids) THEN acc
    ELSE IF i = failIdx THEN collect_edge(acc, ids[i], rd[ids[i]], failRead)
    ELSE collect_from(collect_edge(acc, ids[i], rd[ids[i]], 0), ids, rd, i + 1,
                      failIdx, failRead)

\* Faulty variant: every known edge missing from this tick's list is padded with a
\* zero reading.
_collect_step_data_padded(acc, ids, rd, failIdx, failRead) ==
    LET got == collect_from(acc, ids, rd, 1, failIdx, failRead)
        pad(d) == [ i \in DOMAIN d |->
                      IF d[i].k \in Range(ids) THEN d[i]
                      ELSE [k |-> d[i].k, v |-> Append(d[i].v, 0)] ]
    IN  Acc(pad(got.counts), pad(got.speeds), pad(got.occ))

_collect_step_data(acc, ids, rd, failIdx, failRead) ==
    collect_from(acc, ids, rd, 1, failIdx, failRead)

-----------------------------------------------------------------------------
\* Aggregator: SUMOTrafficSimulator._calculate_metrics.

RECURSIVE Sum(_)
Sum(s) == IF s = <<>> THEN 0 ELSE s[1] + Sum(Tail(s))

\* max(list) of a non-empty list.
Max(s) == CHOOSE m \in Range(s) : \A x \in Range(s) : x <= m

RECURSIVE GCD(_, _)
GCD(a, b) == IF b = 0 THEN a ELSE GCD(b, a % b)

\* The value of n / d (d > 0) as the fraction in lowest terms: equal quotients
\* are equal values, as Python's n / d gives equal floats for them.
Frac(n, d) == LET g == GCD(n, d) IN [num |-> n \div g, den |-> d \div g]

\* a > b on such values.
FracGT(a, b) == a.num * b.den > b.num * a.den

\* The exception the dict display of lines 155-160 raises for edge_id, in
\* evaluation order, or "none".
metric_error(acc, edge_id) ==
    IF Len(Get(acc.counts, edge_id)) = 0 THEN "ZeroDivisionError"
    ELSE IF ~Has(acc.speeds, edge_id) THEN "KeyError"
    ELSE IF Len(Get(acc.speeds, edge_id)) = 0 THEN "ZeroDivisionError"
    ELSE IF ~Has(acc.occ, edge_id) THEN "KeyError"
    ELSE IF Len(Get(acc.occ, edge_id)) = 0 THEN "ZeroDivisionError"
    ELSE "none"

edge_metrics(acc, edge_id) ==
    [ avg_vehicles  |-> Frac(Sum(Get(acc.counts, edge_id)), Len(Get(acc.counts, edge_id))),
      max_vehicles  |-> Max(Get(acc.counts, edge_id)),
      avg_speed     |-> Frac(Sum(Get(acc.speeds, edge_id)), Len(Get(acc.speeds, edge_id))),
      avg_occupancy |-> Frac(Sum(Get(acc.occ, edge_id)), Len(Get(acc.occ, edge_id))) ]

\* Faulty variant: the series are consumed while they are reduced (the accumulator is
\* left empty after the call).
_calculate_metrics_draining(acc) ==
    LET bad == { i \in DOMAIN acc.counts : metric_error(acc, acc.counts[i].k) # "none" }
    IN  IF bad # {}
        THEN [ error |-> metric_error(acc,
                            acc.counts[CHOOSE i \in bad : \A j \in bad : i <= j].k),
               value |-> <<>>, self |-> acc ]
        ELSE [ error |-> "none",
               value |-> [ i \in DOMAIN acc.counts |->
                            [k |-> acc.counts[i].k, v |-> edge_metrics(acc, acc.counts[i].k)] ],
               self  |-> EmptyAcc ]

\* _calculate_metrics on the accumulator acc: the exception raised ("none" when
\* it returns), the mapping returned (in the order of edge_counts.keys()), and
\* the accumulator as the call leaves it.
_calculate_metrics(acc) ==
    LET bad == { i \in DOMAIN acc.counts : metric_error(acc, acc.counts[i].k) # "none" }
    IN  IF bad # {}
        THEN [ error |-> metric_error(acc,
                            acc.counts[CHOOSE i \in bad : \A j \in bad : i <= j].k),
               value |-> <<>>, self |-> acc ]
        ELSE [ error |-> "none",
               value |-> [ i \in DOMAIN acc.counts |->
                            [k |-> acc.counts[i].k, v |-> edge_metrics(acc, acc.counts[i].k)] ],
               self  |-> acc ]

-----------------------------------------------------------------------------
\* Reporter/Exporter: print_results, export_to_csv, export_to_json,
\* visualize_results.

\* str.startswith
startswith(str, prefix) ==
    Len(str) >= Len(prefix) /\ SubSeq(str, 1, Len(prefix)) = prefix

\* The literal 0.1 of the report filter.
Threshold == [num |-> 1, den |-> 10]

\* Faulty variant: the threshold compared with >= instead of >.
is_significant_inclusive(e) ==
    ~startswith(e.k, <<":">>) /\ ~FracGT(Threshold, e.v.avg_vehicles)

\* The condition of the dict comprehension of print_results on entry e.
is_significant(e) ==
    ~startswith(e.k, <<":">>) /\ FracGT(e.v.avg_vehicles, Threshold)

significant_edges(m) == SelectSeq(m, is_significant)

\* Faulty variant: ascending sort, then reversed (equal keys come out in reverse order).
insert_desc_reversed_ties(sorted, e) ==
    LET ahead == { i \in DOMAIN sorted :
                     FracGT(sorted[i].v.avg_vehicles, e.v.avg_vehicles) }
        n == Cardinality(ahead)
    IN  SubSeq(sorted, 1, n) \o <<e>> \o SubSeq(sorted, n + 1, Len(sorted))

\* One step of the stable descending sort: e, the next item in input order,
\* goes behind every item already placed whose key is greater or equal.
insert_desc(sorted, e) ==
    LET ahead == { i \in DOMAIN sorted :
                     ~FracGT(e.v.avg_vehicles, sorted[i].v.avg_vehicles) }
        n == Cardinality(ahead)
    IN  SubSeq(sorted, 1, n) \o <<e>> \o SubSeq(sorted, n + 1, Len(sorted))

RECURSIVE sort_from(_, _, _)
sort_from(m, i, sorted) ==
    IF i > Len(m) THEN sorted ELSE sort_from(m, i + 1, insert_desc(sorted, m[i]))

\* sorted(items, key=avg_vehicles, reverse=True)
sorted_edges(m) == sort_from(m, 1, <<>>)

\* print_results(metrics): the significant entries, the table rows printed, and
\* the exception the summary raises (sorted_edges[0] of an empty list).
print_results(m) ==
    LET sig == significant_edges(m)
        rows == sorted_edges(sig)
    IN  [ significant |-> sig,
          rows        |-> rows,
          error       |-> IF rows = <<>> THEN "IndexError" ELSE "none" ]

\* The rows writer.writerow is given, one per entry of metrics.items().
csv_rows(m) ==
    [ i \in DOMAIN m |->
        [ edge_id       |-> m[i].k,
          avg_vehicles  |-> m[i].v.avg_vehicles,
          max_vehicles  |-> m[i].v.max_vehicles,
          avg_speed     |-> m[i].v.avg_speed,
          avg_occupancy |-> m[i].v.avg_occupancy ] ]

\* Faulty variant: the handler re-raises after logging.
export_to_csv_reraise(m, writeOk) ==
    [ status |-> IF writeOk THEN "written" ELSE "failed",
      file   |-> IF writeOk THEN csv_rows(m) ELSE <<>>,
      raised |-> ~writeOk ]

\* export_to_csv(metrics); writeOk: open() and the writes succeed.  A failure
\* is caught by "except Exception" and printed.
export_to_csv(m, writeOk) ==
    [ status |-> IF writeOk THEN "written" ELSE "failed",
      file   |-> IF writeOk THEN csv_rows(m) ELSE <<>>,
      raised |-> FALSE ]

\* export_data of export_to_json (config_file and timestamp left out).
export_data(m, steps) ==
    [ total_steps |-> steps, edge_metrics |-> m ]

\* export_to_json(metrics); writeOk: open() and json.dump succeed.
export_to_json(m, steps, writeOk) ==
    [ status |-> IF writeOk THEN "written" ELSE "failed",
      file   |-> IF writeOk THEN export_data(m, steps) ELSE <<>>,
      raised |-> FALSE ]

\* visualize_results(metrics): skipped without matplotlib; savefig/show are
\* not guarded, so a failure there raises.
visualize_results(m, plotting, saveOk) ==
    IF ~plotting THEN "skipped" ELSE IF saveOk THEN "saved" ELSE "raised"

-----------------------------------------------------------------------------
\* main() and run_simulation().

\* Faulty variant: the handlers log and fall through, so main() goes on.
after_driver_error_swallowed == "print"

\* Where main() is after run_simulation's "except ...: raise".
after_driver_error == "aborted"

Init ==
    /\ pc = "init"
    /\ edge_counts = <<>>
    /\ edge_speeds = <<>>
    /\ edge_occupancy = <<>>
    /\ simulation_steps = 0
    /\ metrics = <<>>
    /\ prevMetrics = <<>>
    /\ calls = 0
    /\ tickLog = <<>>
    /\ abortedBy = "none"
    /\ reportStatus = "none"
    /\ significant = <<>>
    /\ reportRows = <<>>
    /\ csvStatus = "none"
    /\ csvFile = <<>>
    /\ jsonStatus = "none"
    /\ jsonFile = <<>>
    /\ vizStatus = "none"

reportVars == <<reportStatus, significant, reportRows, csvStatus, csvFile, jsonStatus, jsonFile, vizStatus>>
aggVars == <<metrics, prevMetrics, calls>>

\* setup_sumo_environment, checkBinary and traci.start succeed.
StartSimulation ==
    /\ pc = "init"
    /\ pc' = "loop"
    /\ UNCHANGED <<edge_counts, edge_speeds, edge_occupancy, simulation_steps,
                   tickLog, abortedBy, aggVars, reportVars>>

\* traci.start (or checkBinary) raises: run_simulation re-raises.
StartRaises ==
    /\ pc = "init"
    /\ pc' = after_driver_error
    /\ abortedBy' = "start"
    /\ UNCHANGED <<edge_counts, edge_speeds, edge_occupancy, simulation_steps,
                   tickLog, aggVars, reportVars>>

\* One iteration of the while loop: getMinExpectedNumber() > 0,
\* simulationStep(), _collect_step_data(), simulation_steps += 1.
Tick ==
    /\ pc = "loop"
    /\ simulation_steps < MaxTicks
    /\ \E ids \in Lists(RunEdges, Cardinality(RunEdges)) :
       \E rd \in [Range(ids) -> Readings] :
         LET acc == _collect_step_data(Acc(edge_counts, edge_speeds, edge_occupancy),
                                       ids, rd, 0, 0)
         IN  /\ edge_counts' = acc.counts
             /\ edge_speeds' = acc.speeds
             /\ edge_occupancy' = acc.occ
             /\ tickLog' = Append(tickLog, ids)
    /\ simulation_steps' = simulation_steps + 1
    /\ UNCHANGED <<pc, abortedBy, aggVars, reportVars>>

\* A driver call of the loop raises outside the three edge reads
\* (getMinExpectedNumber, simulationStep, getIDList, or close after the
\* loop): the accumulator is as the last complete tick left it.
DriverRaises ==
    /\ pc = "loop"
    /\ pc' = after_driver_error
    /\ abortedBy' = "driver"
    /\ UNCHANGED <<edge_counts, edge_speeds, edge_occupancy, simulation_steps,
                   tickLog, aggVars, reportVars>>

\* An iteration in which one of the three reads of an edge raises inside
\* _collect_step_data: the exception leaves run_simulation.
ReadRaises ==
    /\ pc = "loop"
    /\ simulation_steps < MaxTicks
    /\ \E ids \in Lists(RunEdges, Cardinality(RunEdges)) :
       \E rd \in [Range(ids) -> Readings] :
       \E failIdx \in DOMAIN ids, failRead \in 1..3 :
         LET acc == _collect_step_data(Acc(edge_counts, edge_speeds, edge_occupancy),
                                       ids, rd, failIdx, failRead)
         IN  /\ edge_counts' = acc.counts
             /\ edge_speeds' = acc.speeds
             /\ edge_occupancy' = acc.occ
             /\ tickLog' = Append(tickLog, ids)
    /\ pc' = after_driver_error
    /\ abortedBy' = "driver"
    /\ UNCHANGED <<simulation_steps, aggVars, reportVars>>

\* The effect of one self._calculate_metrics() call on the simulator object.
CallCalculateMetrics(r) ==
    /\ edge_counts' = r.self.counts
    /\ edge_speeds' = r.self.speeds
    /\ edge_occupancy' = r.self.occ
    /\ prevMetrics' = metrics
    /\ metrics' = r.value
    /\ calls' = calls + 1

\* getMinExpectedNumber() = 0: traci.close(), return self._calculate_metrics().
LoopEnd ==
    /\ pc = "loop"
    /\ LET r == _calculate_metrics(Acc(edge_counts, edge_speeds, edge_occupancy))
       IN  /\ CallCalculateMetrics(r)
           /\ pc' = IF r.error = "none" THEN "print" ELSE "aborted"
           /\ abortedBy' = IF r.error = "none" THEN abortedBy ELSE "calc"
    /\ UNCHANGED <<simulation_steps, tickLog, reportVars>>

\* simulator.print_results(metrics)
PrintResults ==
    /\ pc = "print"
    /\ LET r == print_results(metrics)
       IN  /\ reportStatus' = IF r.error = "none" THEN "printed" ELSE "raised"
           /\ significant' = KeyList(r.significant)
           /\ reportRows' = r.rows
           /\ pc' = IF r.error = "none" THEN "csv" ELSE "aborted"
           /\ abortedBy' = IF r.error = "none" THEN abortedBy ELSE "print"
    /\ UNCHANGED <<edge_counts, edge_speeds, edge_occupancy, simulation_steps,
                   tickLog, aggVars, csvStatus, csvFile, jsonStatus, jsonFile, vizStatus>>

\* simulator.export_to_csv(metrics)
ExportToCsv ==
    /\ pc = "csv"
    /\ \E writeOk \in BOOLEAN :
         LET r == export_to_csv(metrics, writeOk)
         IN  /\ csvStatus' = r.status
             /\ csvFile' = r.file
             /\ pc' = IF r.raised THEN "aborted" ELSE "json"
             /\ abortedBy' = IF r.raised THEN "csv" ELSE abortedBy
    /\ UNCHANGED <<edge_counts, edge_speeds, edge_occupancy, simulation_steps,
                   tickLog, aggVars, reportStatus, significant, reportRows, jsonStatus, jsonFile,
                   vizStatus>>

\* simulator.export_to_json(metrics)
ExportToJson ==
    /\ pc = "json"
    /\ \E writeOk \in BOOLEAN :
         LET r == export_to_json(metrics, simulation_steps, writeOk)
         IN  /\ jsonStatus' = r.status
             /\ jsonFile' = r.file
             /\ pc' = IF r.raised THEN "aborted" ELSE "viz"
             /\ abortedBy' = IF r.raised THEN "json" ELSE abortedBy
    /\ UNCHANGED <<edge_counts, edge_speeds, edge_occupancy, simulation_steps,
                   tickLog, aggVars, reportStatus, significant, reportRows, csvStatus, csvFile,
                   vizStatus>>

\* simulator.visualize_results(metrics), then main() returns.
\* PLOTTING_AVAILABLE is fixed at import and read only here.
VisualizeResults ==
    /\ pc = "viz"
    /\ \E plotting \in BOOLEAN, saveOk \in BOOLEAN :
         LET st == visualize_results(metrics, plotting, saveOk)
         IN  /\ vizStatus' = st
             /\ pc' = IF st = "raised" THEN "aborted" ELSE "done"
             /\ abortedBy' = IF st = "raised" THEN "viz" ELSE abortedBy
    /\ UNCHANGED <<edge_counts, edge_speeds, edge_occupancy, simulation_steps,
                   tickLog, aggVars, reportStatus, significant, reportRows, csvStatus, csvFile,
                   jsonStatus, jsonFile>>

Next ==
    \/ StartSimulation
    \/ StartRaises
    \/ Tick
    \/ DriverRaises
    \/ ReadRaises
    \/ LoopEnd
    \/ PrintResults
    \/ ExportToCsv
    \/ ExportToJson
    \/ VisualizeResults

Spec == Init /\ [][Next]_vars

-----------------------------------------------------------------------------
\* The aggregator on its own: _calculate_metrics called repeatedly on an
\* accumulator drawn from the states complete ticks leave behind.

AggReadings == Readings \cup { [count |-> 1, speed |-> 3, occ |-> 1] }

\* Non-empty series of readings.
ReadingSeries == UNION { [1..n -> AggReadings] : n \in 1..MaxSeriesLen }

\* The accumulator holding, for the edges of ids in that order, the readings rs.
AccOf(ids, rs) ==
    Acc([ i \in DOMAIN ids |-> [k |-> ids[i], v |-> [ t \in DOMAIN rs[ids[i]] |-> rs[ids[i]][t].count ]] ],
        [ i \in DOMAIN ids |-> [k |-> ids[i], v |-> [ t \in DOMAIN rs[ids[i]] |-> rs[ids[i]][t].speed ]] ],
        [ i \in DOMAIN ids |-> [k |-> ids[i], v |-> [ t \in DOMAIN rs[ids[i]] |-> rs[ids[i]][t].occ ]] ])

InitAgg ==
    /\ pc = "aggregate"
    /\ \E ids \in Lists(RunEdges, Cardinality(RunEdges)) :
       \E rs \in [Range(ids) -> ReadingSeries] :
         /\ edge_counts = AccOf(ids, rs).counts
         /\ edge_speeds = AccOf(ids, rs).speeds
         /\ edge_occupancy = AccOf(ids, rs).occ
         /\ simulation_steps = MaxSeriesLen
    /\ metrics = <<>>
    /\ prevMetrics = <<>>
    /\ calls = 0
    /\ tickLog = <<>>
    /\ abortedBy = "none"
    /\ reportStatus = "none"
    /\ significant = <<>>
    /\ reportRows = <<>>
    /\ csvStatus = "none"
    /\ csvFile = <<>>
    /\ jsonStatus = "none"
    /\ jsonFile = <<>>
    /\ vizStatus = "none"

\* metrics = simulator._calculate_metrics()
Aggregate ==
    /\ pc = "aggregate"
    /\ calls < MaxCalls
    /\ LET r == _calculate_metrics(Acc(edge_counts, edge_speeds, edge_occupancy))
       IN  /\ CallCalculateMetrics(r)
           /\ pc' = IF r.error = "none" THEN pc ELSE "aborted"
           /\ abortedBy' = IF r.error = "none" THEN abortedBy ELSE "calc"
    /\ UNCHANGED <<simulation_steps, tickLog, reportVars>>

NextAgg == Aggregate

SpecAgg == InitAgg /\ [][NextAgg]_vars

-----------------------------------------------------------------------------
\* The reporter on its own: print_results and the exports applied to an
\* aggregate mapping drawn from a bounded set.

F(n, d) == [num |-> n, den |-> d]

\* Aggregates around the 0.1 threshold, with equal and different avg_vehicles.
Aggregates ==
    { [avg_vehicles |-> F(0, 1),  max_vehicles |-> 0, avg_speed |-> F(0, 1),  avg_occupancy |-> F(0, 1)],
      [avg_vehicles |-> F(1, 10), max_vehicles |-> 9, avg_speed |-> F(14, 1), avg_occupancy |-> F(1, 1)],
      [avg_vehicles |-> F(1, 9),  max_vehicles |-> 1, avg_speed |-> F(0, 1),  avg_occupancy |-> F(0, 1)],
      [avg_vehicles |-> F(2, 1),  max_vehicles |-> 3, avg_speed |-> F(12, 1), avg_occupancy |-> F(1, 2)],
      [avg_vehicles |-> F(5, 1),  max_vehicles |-> 5, avg_speed |-> F(10, 1), avg_occupancy |-> F(1, 2)],
      [avg_vehicles |-> F(5, 1),  max_vehicles |-> 8, avg_speed |-> F(3, 1),  avg_occupancy |-> F(1, 4)] }

\* Insertion-ordered mappings edge id -> aggregate with at most MaxEntries entries.
MetricMappings ==
    UNION { { [ i \in DOMAIN ids |-> [k |-> ids[i], v |-> ag[i]] ] :
                ag \in [DOMAIN ids -> Aggregates] } :
            ids \in Lists(ReportEdges, MaxEntries) }

InitReport ==
    /\ pc \in {"print", "csv"}
    /\ metrics \in MetricMappings
    /\ edge_counts = <<>>
    /\ edge_speeds = <<>>
    /\ edge_occupancy = <<>>
    /\ simulation_steps = 0
    /\ prevMetrics = <<>>
    /\ calls = 1
    /\ tickLog = <<>>
    /\ abortedBy = "none"
    /\ reportStatus = "none"
    /\ significant = <<>>
    /\ reportRows = <<>>
    /\ csvStatus = "none"
    /\ csvFile = <<>>
    /\ jsonStatus = "none"
    /\ jsonFile = <<>>
    /\ vizStatus = "none"

NextReport ==
    \/ PrintResults
    \/ ExportToCsv
    \/ ExportToJson
    \/ VisualizeResults

SpecReport == InitReport /\ [][NextReport]_vars

-----------------------------------------------------------------------------
\* Properties.

\* Number of the first n logged ticks whose edge list held e.
ListedIn(e, n) == Cardinality({ t \in 1..n : e \in Range(tickLog[t]) })

LastListed == Range(tickLog[Len(tickLog)])

\* Every entry of d is still in d2 at its place, with its series as a prefix.
Grows(d, d2) ==
    \A i \in DOMAIN d :
        /\ i \in DOMAIN d2
        /\ d2[i].k = d[i].k
        /\ IsPrefix(d[i].v, d2[i].v)

\* C1: after _collect_step_data has ingested a tick, every edge of that
\* tick's list has a vehicle-count series of length (number of earlier ticks
\* that listed it) + 1, and an edge the tick does not list has exactly one
\* entry per earlier tick that listed it (no padding for the ticks it missed).
C1_SeriesLengthIsTicksListed ==
    (tickLog # <<>> /\ abortedBy # "driver") =>
        /\ \A e \in LastListed :
             /\ Has(edge_counts, e)
             /\ Len(Get(edge_counts, e)) = ListedIn(e, Len(tickLog) - 1) + 1
        /\ \A e \in Keys(edge_counts) \ LastListed :
             Len(Get(edge_counts, e)) = ListedIn(e, Len(tickLog) - 1)

\* C1 witness: an edge listed at ticks 1 and 3 but not at tick 2 has two entries.
C1_Witness ==
    /\ Len(tickLog) = 3
    /\ abortedBy = "none"
    /\ EdgeA \in Range(tickLog[1])
    /\ EdgeA \notin Range(tickLog[2])
    /\ EdgeA \in Range(tickLog[3])
    /\ InternalEdge \notin Range(tickLog[1])
    /\ InternalEdge \in Range(tickLog[2])
    /\ Len(Get(edge_counts, EdgeA)) = 2
    /\ Len(Get(edge_counts, InternalEdge)) = 1

\* C2: no step of a run removes an edge from the accumulator or shrinks a
\* series: each series before the step is a prefix of the series after it,
\* and a tick that does not list an edge leaves its three series unchanged.
C2_SeriesOnlyGrow ==
    [][ /\ Grows(edge_counts, edge_counts')
        /\ Grows(edge_speeds, edge_speeds')
        /\ Grows(edge_occupancy, edge_occupancy')
        /\ tickLog' # tickLog =>
             \A i \in DOMAIN edge_counts :
                 edge_counts[i].k \notin Range(tickLog'[Len(tickLog')]) =>
                     /\ edge_counts'[i] = edge_counts[i]
                     /\ edge_speeds'[i] = edge_speeds[i]
                     /\ edge_occupancy'[i] = edge_occupancy[i]
      ]_vars

\* C2 witness: a finished run in which an edge observed earlier was absent
\* from the last tick and still holds its earlier observations.
C2_Witness ==
    /\ pc = "done"
    /\ Len(tickLog) = 3
    /\ EdgeA \in Range(tickLog[1])
    /\ EdgeA \in Range(tickLog[2])
    /\ EdgeA \notin Range(tickLog[3])
    /\ Get(edge_counts, EdgeA) = <<3, 0>>
    /\ Get(edge_speeds, EdgeA) = <<1, 2>>

\* C3: an entry is only created together with its first observation, so no
\* series of the accumulator is ever empty; _calculate_metrics never divides
\* by zero nor takes the max of an empty series; and in every state reached
\* by ingesting ticks every edge of the accumulator has at least one
\* observation in each of the three series, so the call raises nothing.
C3_NoEmptySeries ==
    LET r == _calculate_metrics(Acc(edge_counts, edge_speeds, edge_occupancy))
    IN  /\ \A d \in {edge_counts, edge_speeds, edge_occupancy} :
             \A i \in DOMAIN d : Len(d[i].v) >= 1
        /\ r.error \notin {"ZeroDivisionError", "ValueError"}
        /\ abortedBy # "calc"
        /\ abortedBy # "driver" =>
             /\ r.error = "none"
             /\ \A e \in Keys(edge_counts) :
                  /\ Has(edge_speeds, e) /\ Len(Get(edge_speeds, e)) >= 1
                  /\ Has(edge_occupancy, e) /\ Len(Get(edge_occupancy, e)) >= 1

\* C3 witness: _calculate_metrics has been called on an accumulator with two
\* edges, one of them first seen at the last tick, and returned two aggregates.
C3_Witness ==
    /\ pc = "print"
    /\ calls = 1
    /\ Len(metrics) = 2
    /\ Len(tickLog) = 2
    /\ Keys(edge_counts) = RunEdges
    /\ \E e \in RunEdges : Len(Get(edge_counts, e)) = 1 /\ Len(Get(edge_counts, e)) < Len(tickLog)

RunOver == pc \in {"done", "aborted"}

\* C4: a file-write failure in export_to_csv or export_to_json is contained.
\* The failing export returns normally (nothing raised out of main() comes
\* from an export); after a failed export_to_csv, export_to_json is the next
\* step and is attempted; a failed export_to_json comes after export_to_csv
\* was attempted and is followed by visualize_results; the run is never
\* stuck after a failed export, and it ends in "done" unless
\* visualize_results itself raises.
C4_ExportFailureContained ==
    /\ abortedBy \notin {"csv", "json"}
    /\ csvStatus = "failed" => (pc = "json" \/ jsonStatus # "none")
    /\ jsonStatus = "failed" =>
         /\ csvStatus # "none"
         /\ pc = "viz" \/ vizStatus # "none"
    /\ (csvStatus = "failed" \/ jsonStatus = "failed") =>
         /\ pc \in {"json", "viz", "done", "aborted"}
         /\ ~RunOver => ENABLED Next
         /\ pc = "aborted" => (abortedBy = "viz" /\ vizStatus = "raised")
         /\ vizStatus \in {"skipped", "saved"} => pc = "done"

\* C4 witness: both exports failed to write and the run completed.
C4_Witness ==
    /\ pc = "done"
    /\ csvStatus = "failed"
    /\ jsonStatus = "failed"
    /\ reportStatus = "printed"

\* C4 witness (vice versa): export_to_json failed after export_to_csv wrote.
C4_WitnessJsonOnly ==
    /\ pc = "done"
    /\ csvStatus = "written"
    /\ jsonStatus = "failed"

\* C5: when a driver call raises in the collection loop, run_simulation
\* re-raises: main() is over, no report, export or visualization has been or
\* will be attempted and no aggregate was computed, and the failing tick
\* leaves every observation accumulated before it in place.
C5_DriverErrorAborts ==
    /\ [](abortedBy \in {"start", "driver"} =>
            /\ pc = "aborted"
            /\ ~ENABLED Next
            /\ calls = 0
            /\ reportStatus = "none"
            /\ csvStatus = "none" /\ jsonStatus = "none" /\ vizStatus = "none")
    /\ [][abortedBy' = "driver" =>
            /\ Grows(edge_counts, edge_counts')
            /\ Grows(edge_speeds, edge_speeds')
            /\ Grows(edge_occupancy, edge_occupancy')
            /\ simulation_steps' = simulation_steps]_vars

\* C5 witness: the driver raised at the third tick; the two ticks ingested
\* before it are still in the accumulator.
C5_Witness ==
    /\ abortedBy = "driver"
    /\ pc = "aborted"
    /\ simulation_steps = 2
    /\ Len(tickLog) = 3
    /\ Has(edge_counts, EdgeA)
    /\ Len(Get(edge_counts, EdgeA)) >= 2

\* C6: _calculate_metrics only reads the accumulator (edge_counts,
\* edge_speeds, edge_occupancy and simulation_steps are the same after a call
\* as before it), and the second of two consecutive calls returns the same
\* mapping as the first.
C6_AggregatorPureIdempotent ==
    /\ [](calls >= 2 => (metrics = prevMetrics /\ abortedBy = "none"))
    /\ [][calls' # calls =>
            UNCHANGED <<edge_counts, edge_speeds, edge_occupancy, simulation_steps>>]_vars

\* C6 witness: two calls were made on an accumulator with two edges whose
\* series have different lengths.
C6_Witness ==
    /\ calls = 2
    /\ Len(metrics) = 2
    /\ Len(edge_counts) = 2
    /\ Len(edge_counts[1].v) # Len(edge_counts[2].v)
    /\ metrics[1].v.avg_vehicles # metrics[2].v.avg_vehicles

\* C7: the edges print_results treats as significant are exactly those whose
\* id does not start with ':' and whose avg_vehicles is strictly greater than
\* 0.1, whatever the other fields are; a written csv file has one row per
\* entry of the unfiltered mapping, in its order, and a written json file
\* holds the unfiltered mapping.
C7_SignificantFilter ==
    /\ reportStatus # "none" =>
         /\ Range(significant) =
              { metrics[i].k : i \in { j \in DOMAIN metrics :
                    /\ metrics[j].k[1] # ":"
                    /\ 10 * metrics[j].v.avg_vehicles.num > metrics[j].v.avg_vehicles.den } }
         /\ Len(significant) = Cardinality(Range(significant))
    /\ csvStatus = "written" =>
         /\ Len(csvFile) = Len(metrics)
         /\ \A i \in DOMAIN metrics : csvFile[i].edge_id = metrics[i].k
    /\ jsonStatus = "written" => jsonFile.edge_metrics = metrics

\* C7 witness: an internal edge with avg 5, an edge at exactly 0.1 with large
\* other fields and an edge just above 0.1; only the last is significant, and
\* both exports hold all three.
C7_Witness ==
    /\ Len(metrics) = 3
    /\ metrics[1].k = InternalEdge /\ metrics[1].v.avg_vehicles = F(5, 1)
    /\ metrics[2].k = EdgeA /\ metrics[2].v.avg_vehicles = F(1, 10)
    /\ metrics[2].v.max_vehicles = 9
    /\ metrics[3].k = EdgeColonInside /\ metrics[3].v.avg_vehicles = F(1, 9)
    /\ reportStatus = "printed"
    /\ significant = <<EdgeColonInside>>
    /\ csvStatus = "written" /\ Len(csvFile) = 3
    /\ jsonStatus = "written" /\ Len(jsonFile.edge_metrics) = 3

\* Position of edge id key in the mapping m.
IndexOf(m, key) == CHOOSE i \in DOMAIN m : m[i].k = key

\* C8: the report rows are the significant entries, each once, ordered by
\* avg_vehicles descending, and two rows with equal avg_vehicles are in the
\* order in which they were inserted into the aggregate mapping.
C8_StableDescendingRows ==
    reportStatus # "none" =>
        /\ Len(reportRows) = Len(significant)
        /\ { reportRows[i].k : i \in DOMAIN reportRows } = Range(significant)
        /\ \A i \in DOMAIN reportRows : reportRows[i] \in Range(metrics)
        /\ \A i, j \in DOMAIN reportRows : i < j =>
             LET a == reportRows[i].v.avg_vehicles
                 b == reportRows[j].v.avg_vehicles
             IN  /\ a.num * b.den >= b.num * a.den
                 /\ a.num * b.den = b.num * a.den =>
                      IndexOf(metrics, reportRows[i].k) < IndexOf(metrics, reportRows[j].k)

\* C8 witness: A(avg=5), B(avg=5), C(avg=2) inserted in that order are
\* reported as [A, B, C].
C8_Witness ==
    /\ KeyList(metrics) = <<EdgeA, EdgeB, EdgeColonInside>>
    /\ metrics[1].v.avg_vehicles = F(5, 1)
    /\ metrics[2].v.avg_vehicles = F(5, 1)
    /\ metrics[3].v.avg_vehicles = F(2, 1)
    /\ reportStatus = "printed"
    /\ KeyList(reportRows) = <<EdgeA, EdgeB, EdgeColonInside>>

\* C9 (as claimed): whenever the collection loop ended normally, main() has
\* attempted both exports by the time it is over.
C9_ExportsAttemptedAfterLoop ==
    (calls >= 1 /\ abortedBy # "calc" /\ RunOver) =>
        (csvStatus # "none" /\ jsonStatus # "none")

\* C10 (as claimed): wherever the caller can observe the accumulator, the
\* three dicts have the same edge ids and, per id, series of the same length.
C10_ParallelSeries ==
    /\ Keys(edge_counts) = Keys(edge_speeds)
    /\ Keys(edge_speeds) = Keys(edge_occupancy)
    /\ \A e \in Keys(edge_counts) :
         /\ Has(edge_speeds, e) => Len(Get(edge_speeds, e)) = Len(Get(edge_counts, e))
         /\ Has(edge_occupancy, e) => Len(Get(edge_occupancy, e)) = Len(Get(edge_counts, e))

====
